---- MODULE Spec2Model ----
(***************************************************************************)
(* AutoAiTag.py: the concurrent metadata-extraction pipeline.              *)
(*                                                                         *)
(* main() submits one process_file job per markdown file to a thread pool  *)
(* of `workers` threads; a job reads the file, parses its frontmatter,     *)
(* optionally queries the LLM behind the global llm_semaphore, merges the  *)
(* returned metadata, resolves the date and either returns a dry-run       *)
(* record or rewrites the file through path + ".tmp" and os.replace.       *)
(* main() consumes the futures with as_completed.                          *)
(*                                                                         *)
(* Python strings are sequences of one-character strings, so that strip,   *)
(* split, zfill and the filename regex are computed, not assumed.          *)
(* Python values of mixed type (YAML scalars, lists, None) are tagged      *)
(* records [t, s, n, l].  Floats are hundredths (0.9 is 90).               *)
(***************************************************************************)
EXTENDS Integers, Sequences, FiniteSets, Bags, TLC

(***************************************************************************)
(* Bounds of the model                                                     *)
(***************************************************************************)
\* number of markdown files gather_md_files finds in the vault
NumDocs == 2
\* largest worker count entered at the prompt
MaxWorkers == 2
\* largest LLM concurrency limit entered at the prompt
MaxLimit == 2
\* the character threshold entered at the prompt
MaxCharLimit == 3
\* longest text given to extract_json_object
MaxTextLen == 6

(***************************************************************************)
(* Python values                                                           *)
(***************************************************************************)
PyNone == [t |-> "none", s |-> <<>>, n |-> 0, l |-> <<>>]

PyStr(x) == [t |-> "str", s |-> x, n |-> 0, l |-> <<>>]

PyBool(b) == [t |-> "bool", s |-> <<>>, n |-> IF b THEN 1 ELSE 0, l |-> <<>>]

PyInt(i) == [t |-> "int", s |-> <<>>, n |-> i, l |-> <<>>]

\* a float, in hundredths
PyFloat(h) == [t |-> "float", s |-> <<>>, n |-> h, l |-> <<>>]

\* a list of strings
PyList(xs) == [t |-> "list", s |-> <<>>, n |-> 0, l |-> xs]

\* Python truthiness: bool(v)
Truthy(v) ==
    CASE v.t = "none" -> FALSE
      [] v.t = "str" -> v.s # <<>>
      [] v.t = "list" -> v.l # <<>>
      [] OTHER -> v.n # 0

\* dict.get(k) with default None
DictGet(d, k) == IF k \in DOMAIN d THEN d[k] ELSE PyNone

\* dict.get(k, dflt)
DictGetDefault(d, k, dflt) == IF k \in DOMAIN d THEN d[k] ELSE dflt

\* d[k] = v
DictSet(d, k, v) == [x \in (DOMAIN d) \cup {k} |-> IF x = k THEN v ELSE d[x]]

\* d.setdefault(k, v)
DictSetDefault(d, k, v) == IF k \in DOMAIN d THEN d ELSE DictSet(d, k, v)

\* the empty dict {}
EmptyDict == [x \in {} |-> PyNone]

(***************************************************************************)
(* Python string methods on character sequences                            *)
(***************************************************************************)
Whitespace == {" ", "\n", "\t"}

Digit == {"0", "1", "2", "3", "4", "5", "6", "7", "8", "9"}

RECURSIVE LStripSet(_, _)
\* s.lstrip(chars)
LStripSet(s, chars) ==
    IF s # <<>> /\ Head(s) \in chars THEN LStripSet(Tail(s), chars) ELSE s

RECURSIVE RStripSet(_, _)
\* s.rstrip(chars)
RStripSet(s, chars) ==
    IF s # <<>> /\ s[Len(s)] \in chars
    THEN RStripSet(SubSeq(s, 1, Len(s) - 1), chars)
    ELSE s

\* s.strip()
Strip(s) == RStripSet(LStripSet(s, Whitespace), Whitespace)

RECURSIVE SplitOn(_, _, _)
\* s.split(sep) for a one-character separator; cur is the piece being read
SplitOn(s, sep, cur) ==
    IF s = <<>> THEN <<cur>>
    ELSE IF Head(s) = sep THEN <<cur>> \o SplitOn(Tail(s), sep, <<>>)
    ELSE SplitOn(Tail(s), sep, Append(cur, Head(s)))

\* the positions where a maximal run of non-whitespace characters starts
WordStarts(s) ==
    {i \in 1..Len(s) : s[i] \notin Whitespace /\ (i = 1 \/ s[i - 1] \in Whitespace)}

\* the last position of the run that starts at i
WordEnd(s, i) ==
    CHOOSE j \in i..Len(s) :
        /\ \A k \in i..j : s[k] \notin Whitespace
        /\ (j = Len(s) \/ s[j + 1] \in Whitespace)

\* s.split(): the maximal runs of non-whitespace characters, in order
SplitWords(s) ==
    LET starts == WordStarts(s)
        nth(k) == CHOOSE i \in starts : Cardinality({j \in starts : j < i}) = k - 1
    IN [k \in 1..Cardinality(starts) |-> SubSeq(s, nth(k), WordEnd(s, nth(k)))]

RECURSIVE JoinWords(_)
\* " ".join(words)
JoinWords(ws) ==
    IF ws = <<>> THEN <<>>
    ELSE IF Len(ws) = 1 THEN ws[1]
    ELSE ws[1] \o <<" ">> \o JoinWords(Tail(ws))

\* s.zfill(2)
ZFill2(s) == IF Len(s) < 2 THEN <<"0">> \o s ELSE s

\* the first n items of a list: xs[:n]
Take(xs, n) == SubSeq(xs, 1, IF Len(xs) < n THEN Len(xs) ELSE n)

RECURSIVE SelectStripped(_)
\* [str(t).strip() for t in xs if str(t).strip()]
SelectStripped(xs) ==
    IF xs = <<>> THEN <<>>
    ELSE IF Strip(Head(xs)) = <<>> THEN SelectStripped(Tail(xs))
    ELSE <<Strip(Head(xs))>> \o SelectStripped(Tail(xs))

RECURSIVE IntDigits(_)
\* str(i) for a natural number
IntDigits(i) ==
    LET d == <<"0", "1", "2", "3", "4", "5", "6", "7", "8", "9">>[(i % 10) + 1]
    IN IF i < 10 THEN <<d>> ELSE Append(IntDigits(i \div 10), d)

\* str(v) for the scalar values the model uses
PyStrOf(v) ==
    CASE v.t = "str" -> v.s
      [] v.t = "none" -> <<"N", "o", "n", "e">>
      [] v.t = "bool" -> IF v.n = 1 THEN <<"T", "r", "u", "e">>
                                    ELSE <<"F", "a", "l", "s", "e">>
      [] OTHER -> IntDigits(v.n)

(***************************************************************************)
(* clean_text_unicode_escapes                                              *)
(***************************************************************************)
HexDigit == Digit \cup {"a", "b", "c", "d", "e", "f", "A", "B", "C", "D", "E", "F"}

\* whether s holds the two characters backslash, c somewhere
HasEscape(s, c) == \E i \in 1..(Len(s) - 1) : s[i] = "\\" /\ s[i + 1] = c

RECURSIVE DecodeUnicodeEscape(_)
\* s.encode('utf-8').decode('unicode_escape') on ASCII text: a backslash-u
\* escape with four hex digits becomes one character, a truncated one fails
DecodeUnicodeEscape(s) ==
    IF s = <<>> THEN [ok |-> TRUE, out |-> <<>>]
    ELSE IF Head(s) = "\\" /\ Len(s) >= 2 /\ s[2] = "u"
    THEN IF Len(s) >= 6 /\ \A j \in 3..6 : s[j] \in HexDigit
         THEN LET rest == DecodeUnicodeEscape(SubSeq(s, 7, Len(s)))
              IN [ok |-> rest.ok,
                  out |-> <<"U+" \o s[3] \o s[4] \o s[5] \o s[6]>> \o rest.out]
         ELSE [ok |-> FALSE, out |-> <<>>]
    ELSE LET rest == DecodeUnicodeEscape(Tail(s))
         IN [ok |-> rest.ok, out |-> <<Head(s)>> \o rest.out]

clean_text_unicode_escapes(s) ==
    IF HasEscape(s, "u") \/ HasEscape(s, "U")
    THEN (IF DecodeUnicodeEscape(s).ok THEN DecodeUnicodeEscape(s).out ELSE s)
    ELSE s

RECURSIVE CleanEach(_)
\* [clean_text_unicode_escapes(t) for t in tags]
CleanEach(tags) ==
    IF tags = <<>> THEN <<>>
    ELSE <<clean_text_unicode_escapes(Head(tags))>> \o CleanEach(Tail(tags))

(***************************************************************************)
(* parse_tags_field                                                        *)
(***************************************************************************)
\* yaml.safe_load(raw) returns a list: the flow sequence "[a, b]" with no
\* empty item (block lists and quoting are outside the model's alphabet)
YamlIsFlowList(raw) ==
    LET s == Strip(raw)
    IN /\ Len(s) >= 2
       /\ s[1] = "["
       /\ s[Len(s)] = "]"
       /\ LET inner == Strip(SubSeq(s, 2, Len(s) - 1))
              items == SplitOn(inner, ",", <<>>)
          IN inner = <<>> \/ \A i \in 1..Len(items) : Strip(items[i]) # <<>>

\* the items of the flow sequence
YamlFlowItems(raw) ==
    LET s == Strip(raw)
        inner == Strip(SubSeq(s, 2, Len(s) - 1))
    IN IF inner = <<>> THEN <<>> ELSE SplitOn(inner, ",", <<>>)

parse_tags_field(raw) ==
    CASE raw.t = "none" -> <<>>
      [] raw.t = "list" -> SelectStripped(raw.l)
      [] raw.t = "str" ->
            IF YamlIsFlowList(raw.s)
            THEN SelectStripped(YamlFlowItems(raw.s))
            ELSE SelectStripped(SplitOn(raw.s, ",", <<>>))
      [] OTHER -> <<Strip(PyStrOf(raw))>>

(***************************************************************************)
(* extract_date_from_filename, determine_file_date                         *)
(***************************************************************************)
\* s[i..i+k-1] are k digits
DigitsAt(s, i, k) == \A j \in i..(i + k - 1) : j <= Len(s) /\ s[j] \in Digit

\* \((\d{4})-(\d{1,2})-(\d{1,2})\) matches at position i with a month of m
\* digits and a day of d digits
DateMatchAt(s, i, m, d) ==
    /\ i + 7 + m + d <= Len(s)
    /\ s[i] = "("
    /\ DigitsAt(s, i + 1, 4)
    /\ s[i + 5] = "-"
    /\ DigitsAt(s, i + 6, m)
    /\ s[i + 6 + m] = "-"
    /\ DigitsAt(s, i + 7 + m, d)
    /\ s[i + 7 + m + d] = ")"

\* the quantifiers are greedy: two digits are tried before one
DateWidths == << <<2, 2>>, <<2, 1>>, <<1, 2>>, <<1, 1>> >>

DateMatches(s, i) == {k \in 1..4 : DateMatchAt(s, i, DateWidths[k][1], DateWidths[k][2])}

MinOf(S) == CHOOSE x \in S : \A y \in S : x <= y

extract_date_from_filename(filename) ==
    LET starts == {i \in 1..Len(filename) : DateMatches(filename, i) # {}}
    IN IF starts = {} THEN PyNone
       ELSE LET i == MinOf(starts)
                w == DateWidths[MinOf(DateMatches(filename, i))]
                year == SubSeq(filename, i + 1, i + 4)
                month == SubSeq(filename, i + 6, i + 5 + w[1])
                day == SubSeq(filename, i + 7 + w[1], i + 6 + w[1] + w[2])
            IN PyStr(year \o <<"-">> \o ZFill2(month) \o <<"-">> \o ZFill2(day))

\* the value of a number in hundredths; bool is an int in Python
Hundredths(v) == IF v.t = "float" THEN v.n ELSE v.n * 100

IsNumber(v) == v.t \in {"float", "int", "bool"}

\* 0.9, in hundredths (line 332)
ConfidenceThreshold == 90

\* determine_file_date with `ai_confidence >= 0.9` at line 332
determine_file_date_ge(ai_date, ai_confidence, filename, file_creation_date) ==
    IF Truthy(ai_date) /\ Truthy(ai_confidence) /\ ~IsNumber(ai_confidence)
    THEN [exc |-> TRUE, date |-> PyNone, source |-> "none"]
    ELSE IF /\ Truthy(ai_date)
            /\ Truthy(ai_confidence)
            /\ Hundredths(ai_confidence) >= ConfidenceThreshold
    THEN [exc |-> FALSE, date |-> ai_date, source |-> "AI"]
    ELSE LET filename_date == extract_date_from_filename(filename)
         IN IF Truthy(filename_date)
            THEN [exc |-> FALSE, date |-> filename_date, source |-> "Filename"]
            ELSE [exc |-> FALSE, date |-> PyStr(file_creation_date),
                  source |-> "FileSystem"]

\* [exc, date, source]; exc: `ai_confidence > 0.9` raised TypeError
determine_file_date(ai_date, ai_confidence, filename, file_creation_date) ==
    IF Truthy(ai_date) /\ Truthy(ai_confidence) /\ ~IsNumber(ai_confidence)
    THEN [exc |-> TRUE, date |-> PyNone, source |-> "none"]
    ELSE IF /\ Truthy(ai_date)
            /\ Truthy(ai_confidence)
            /\ Hundredths(ai_confidence) > ConfidenceThreshold
    THEN [exc |-> FALSE, date |-> ai_date, source |-> "AI"]
    ELSE LET filename_date == extract_date_from_filename(filename)
         IN IF Truthy(filename_date)
            THEN [exc |-> FALSE, date |-> filename_date, source |-> "Filename"]
            ELSE [exc |-> FALSE, date |-> PyStr(file_creation_date),
                  source |-> "FileSystem"]

(***************************************************************************)
(* parse_frontmatter_and_body and the rendering of the rewritten file      *)
(*                                                                         *)
(* A file's content is [kind, fm, body]: "plain" has no leading "---"      *)
(* block and body is the whole text; "fm" has a block that YAML loads as   *)
(* the mapping fm, "badfm" one that fails to load or is no mapping; body   *)
(* is the text after the closing marker.  "partial" is a file opened for   *)
(* writing whose text is not yet (or never) completely written.            *)
(***************************************************************************)
\* (fm, body, had_fm)
parse_frontmatter_and_body(content) ==
    CASE content.kind = "fm" -> [fm |-> content.fm, body |-> content.body, had_fm |-> TRUE]
      [] content.kind = "badfm" -> [fm |-> EmptyDict, body |-> content.body, had_fm |-> TRUE]
      [] OTHER -> [fm |-> EmptyDict, body |-> content.body, had_fm |-> FALSE]

\* f"---\n{yaml_text}---\n\n{body.lstrip(chr(10))}" (lines 445-447)
RenderContent(fm, body) ==
    [kind |-> "fm", fm |-> fm, body |-> <<"\n", "\n">> \o LStripSet(body, {"\n"})]

\* no file at the path
Absent == [kind |-> "absent", fm |-> EmptyDict, body |-> <<>>]

\* a file whose text is incompletely written
Partial == [kind |-> "partial", fm |-> EmptyDict, body |-> <<>>]

(***************************************************************************)
(* query_llm_for_summary_and_tags: from the reply to the returned dict     *)
(*                                                                         *)
(* A reply is [status, is_dict, parsed]: status "error" is a transport     *)
(* error, a timeout, a non-2xx status or a body without                    *)
(* choices[0].message.content; otherwise `parsed` is what lines 225-244    *)
(* load from the raw output, a mapping when is_dict.                       *)
(***************************************************************************)
\* summaries are cut to this many words (line 257)
MaxSummaryWords == 50

\* at most this many tags are returned, and appended (lines 264, 429)
MaxTags == 3

\* {"summary": "", "tags": [], "date": None, "date_confidence": 0.0}
EmptyResult ==
    [summary |-> <<>>, tags |-> <<>>, date |-> PyNone, date_confidence |-> PyFloat(0)]

\* lines 252-258
SummaryOf(parsed) ==
    LET got == DictGetDefault(parsed, "summary", PyStr(<<>>))
        raw == IF Truthy(got) THEN got ELSE PyStr(<<>>)
        text == clean_text_unicode_escapes(Strip(PyStrOf(raw)))
        words == SplitWords(text)
    IN IF Len(words) > MaxSummaryWords
       THEN JoinWords(Take(words, MaxSummaryWords)) \o <<".", ".", ".">>
       ELSE text

\* lines 261-264
TagsOf(parsed) ==
    LET raw_tags == DictGetDefault(parsed, "tags", DictGetDefault(parsed, "tag", PyList(<<>>)))
    IN Take(CleanEach(parse_tags_field(raw_tags)), MaxTags)

\* lines 215-275: the dict the call returns for a reply
ModelResult(reply) ==
    IF reply.status = "error" \/ ~reply.is_dict
    THEN EmptyResult
    ELSE [summary |-> SummaryOf(reply.parsed),
          tags |-> TagsOf(reply.parsed),
          date |-> DictGet(reply.parsed, "date"),
          date_confidence |-> DictGetDefault(reply.parsed, "date_confidence", PyFloat(0))]

(***************************************************************************)
(* process_file: the computations between its reads and writes             *)
(***************************************************************************)
\* os.path.splitext(name)[0]
SplitExtRoot(name) ==
    LET dots == {i \in 2..Len(name) : name[i] = "." /\ \E j \in 1..(i - 1) : name[j] # "."}
    IN IF dots = {} THEN name
       ELSE SubSeq(name, 1, (CHOOSE i \in dots : \A j \in dots : j <= i) - 1)

\* BasicFields without the title default of lines 396-399
BasicFieldsNoTitle(fm, body, name) ==
    DictSet(fm, "wordCount", PyInt(Len(SplitWords(body))))

\* lines 396-404: title and wordCount
BasicFields(fm, body, name) ==
    LET title == IF Truthy(DictGet(fm, "title")) THEN DictGet(fm, "title")
                 ELSE PyStr(SplitExtRoot(name))
    IN DictSet(DictSetDefault(fm, "title", title), "wordCount",
               PyInt(Len(SplitWords(body))))

RECURSIVE NotIn(_, _)
\* [t for t in tags if t not in existing]
NotIn(tags, existing) ==
    IF tags = <<>> THEN <<>>
    ELSE IF \E i \in 1..Len(existing) : existing[i] = Head(tags)
         THEN NotIn(Tail(tags), existing)
         ELSE <<Head(tags)>> \o NotIn(Tail(tags), existing)

\* lines 420-425: the header's tags as a list; exc: list(existing_tags)
\* raised TypeError (None, a number or a bool is not iterable)
ExistingTags(fm) ==
    LET got == DictGetDefault(fm, "tags", PyList(<<>>))
    IN CASE got.t = "str" -> [exc |-> FALSE, tags |-> parse_tags_field(got)]
         [] got.t = "list" -> [exc |-> FALSE, tags |-> got.l]
         [] OTHER -> [exc |-> TRUE, tags |-> <<>>]

\* MergeAI without the `t not in existing_tags` filter of line 426
MergeAINoFilter(fm, ai) ==
    LET fm1 == IF ai.summary # <<>> THEN DictSet(fm, "summary", PyStr(ai.summary)) ELSE fm
        existing == ExistingTags(fm1)
        new_tags == ai.tags
    IN IF existing.exc THEN [exc |-> TRUE, fm |-> fm1]
       ELSE IF new_tags # <<>>
       THEN [exc |-> FALSE,
             fm |-> DictSet(fm1, "tags", PyList(existing.tags \o Take(new_tags, MaxTags)))]
       ELSE [exc |-> FALSE, fm |-> fm1]

\* MergeAI without the test of line 417: the summary is always assigned
MergeAIAlwaysSummary(fm, ai) ==
    LET fm1 == DictSet(fm, "summary", PyStr(ai.summary))
        existing == ExistingTags(fm1)
        new_tags == NotIn(ai.tags, existing.tags)
    IN IF existing.exc THEN [exc |-> TRUE, fm |-> fm1]
       ELSE IF new_tags # <<>>
       THEN [exc |-> FALSE,
             fm |-> DictSet(fm1, "tags", PyList(existing.tags \o Take(new_tags, MaxTags)))]
       ELSE [exc |-> FALSE, fm |-> fm1]

\* line 391 with `is True` in place of truthiness
ShouldSkipIfTrue(fm, force) == DictGet(fm, "autoAiTag") = PyBool(TRUE) /\ ~force

\* line 391: fm.get("autoAiTag") and not force_flag
ShouldSkip(fm, force) == Truthy(DictGet(fm, "autoAiTag")) /\ ~force

\* lines 417-429: [exc, fm]
MergeAI(fm, ai) ==
    LET fm1 == IF ai.summary # <<>> THEN DictSet(fm, "summary", PyStr(ai.summary)) ELSE fm
        existing == ExistingTags(fm1)
        new_tags == NotIn(ai.tags, existing.tags)
    IN IF existing.exc THEN [exc |-> TRUE, fm |-> fm1]
       ELSE IF new_tags # <<>>
       THEN [exc |-> FALSE,
             fm |-> DictSet(fm1, "tags", PyList(existing.tags \o Take(new_tags, MaxTags)))]
       ELSE [exc |-> FALSE, fm |-> fm1]

(***************************************************************************)
(* State                                                                   *)
(***************************************************************************)
VARIABLES
    md_files,               \* the paths gather_md_files returned (line 563)
    files,                  \* the vault: path -> [name, ctime, content]
    tmp_files,              \* path -> content of path + ".tmp", or Absent
    char_limit,             \* main's configuration (lines 510-560)
    force_flag,
    write_mode,
    workers,
    llm_concurrency_limit,
    llm_semaphore,          \* the module global: [created, value]; None is ~created
    main_pc,                \* where main is: "init", "as_completed", "done"
    job,                    \* path -> the locals of its process_file call
    future,                 \* path -> [state, exception, result] of its future
    yielded,                \* the futures as_completed has handed to main's loop
    results,                \* main's results list, as a bag (its order is not modelled)
    error_log,              \* main's error_log list, as a bag
    processed_count,        \* main's processed_count
    original,               \* history: the vault as it was before the run
    llm_calls,              \* history: path -> number of requests.post calls made
    acquires,               \* history: path -> number of llm_semaphore.acquire() returns
    releases,               \* history: path -> number of llm_semaphore.release() calls
    json_call               \* the frame of a call of extract_json_object

config == <<char_limit, force_flag, write_mode, workers, llm_concurrency_limit>>

history == <<original, llm_calls, acquires, releases>>

vars == <<md_files, files, tmp_files, config, llm_semaphore, main_pc, job, future,
          yielded, results, error_log, processed_count, history, json_call>>

\* no call of extract_json_object is in progress.  In a frame, start and i are
\* positions from 1 (0: not set), found tells a substring from None
NoCall ==
    [pc |-> "none", s |-> <<>>, start |-> 0, i |-> 0, depth |-> 0, found |-> FALSE,
     json_sub |-> <<>>]

\* what a future returns: None, the write-mode dicts of lines 450 and 453, or
\* the dry-run dict of lines 456-462
NoneResult ==
    [kind |-> "None", path |-> 0, metadata |-> EmptyDict, date_source |-> "none",
     ai_date |-> PyNone, ai_confidence |-> PyFloat(0)]

WrittenResult(d) == [NoneResult EXCEPT !.kind = "Written", !.path = d]

WriteFailedResult(d) == [NoneResult EXCEPT !.kind = "WriteFailed", !.path = d]

DryRunResult(d, fm, source, ai_date, ai_confidence) ==
    [kind |-> "DryRun", path |-> d, metadata |-> fm, date_source |-> source,
     ai_date |-> ai_date, ai_confidence |-> ai_confidence]

\* the locals of a process_file call that is not running; `exit` is how its
\* call of query_llm_for_summary_and_tags left the try block
FreshJob ==
    [pc |-> "pending", fm |-> EmptyDict, body |-> <<>>, ai |-> EmptyResult,
     ai_date |-> PyNone, ai_confidence |-> PyFloat(0), date_source |-> "FileSystem",
     new_content |-> Absent, exit |-> "none"]

FreshFuture == [state |-> "pending", exception |-> FALSE, result |-> NoneResult]

(***************************************************************************)
(* Inputs                                                                  *)
(***************************************************************************)
\* a text of n characters: words of one letter, separated by blanks
Text(n) == [i \in 1..n |-> IF i % 2 = 1 THEN "w" ELSE " "]

\* one character short of the threshold, and exactly at it
ShortBody == Text(MaxCharLimit - 1)

LongBody == <<"\n">> \o Text(MaxCharLimit - 1)

TagA == <<"a">>

TagB == <<"b">>

TagC == <<"c">>

TagD == <<"d">>

\* "n.md"
NamePlain == <<"n", ".", "m", "d">>

\* "x(2021-3-9).md"
NameShortDate == <<"x", "(", "2", "0", "2", "1", "-", "3", "-", "9", ")", ".", "m", "d">>

\* "(2020-01-01).md"
NameFullDate == <<"(", "2", "0", "2", "0", "-", "0", "1", "-", "0", "1", ")", ".", "m", "d">>

\* "(2021-3).md": no day, so no date
NameNoDay == <<"(", "2", "0", "2", "1", "-", "3", ")", ".", "m", "d">>

\* "1999-01-01"
FsDate == <<"1", "9", "9", "9", "-", "0", "1", "-", "0", "1">>

\* "2023-05-01"
AiDate == <<"2", "0", "2", "3", "-", "0", "5", "-", "0", "1">>

Plain(body) == [kind |-> "plain", fm |-> EmptyDict, body |-> body]

WithHeader(fm, body) == [kind |-> "fm", fm |-> fm, body |-> body]

File(name, content) == [name |-> name, ctime |-> FsDate, content |-> content]

\* the kinds of file of the concurrent runs: a long note without header, a long
\* note whose header has an empty `tags:` entry, a long note already tagged, and
\* a short note
CoreFiles ==
    << File(NameShortDate, Plain(LongBody)),
       File(NamePlain, WithHeader([tags |-> PyNone], LongBody)),
       File(NamePlain, WithHeader([autoAiTag |-> PyBool(TRUE), tags |-> PyList(<<TagA>>)], LongBody)),
       File(NamePlain, Plain(ShortBody)) >>

\* the vaults of the concurrent runs: the kinds above, dealt to the paths from
\* each starting kind
CoreVaults(paths) ==
    { [d \in paths |-> CoreFiles[((d + v) % Len(CoreFiles)) + 1]] : v \in 1..Len(CoreFiles) }

Reply(status, is_dict, parsed) == [status |-> status, is_dict |-> is_dict, parsed |-> parsed]

ErrorReply == Reply("error", FALSE, EmptyDict)

UnparseableReply == Reply("ok", FALSE, EmptyDict)

GoodReply ==
    Reply("ok", TRUE,
          [summary |-> PyStr(<<"s">>), tags |-> PyList(<<TagA, TagB>>),
           date |-> PyStr(AiDate), date_confidence |-> PyFloat(95)])

\* the replies of the concurrent runs
CoreReplies == {ErrorReply, UnparseableReply, GoodReply}

(***************************************************************************)
(* Inputs of the single-file runs: every kind of header, file name and     *)
(* reply the code distinguishes                                            *)
(***************************************************************************)
AllNames == {NamePlain, NameShortDate, NameFullDate, NameNoDay}

\* "a, b"
TagsCommaString == <<"a", ",", " ", "b">>

\* "yes"
Yes == <<"y", "e", "s">>

HeaderContents ==
    { WithHeader(EmptyDict, LongBody),
      [kind |-> "badfm", fm |-> EmptyDict, body |-> LongBody],
      WithHeader([autoAiTag |-> PyBool(TRUE), tags |-> PyList(<<TagA>>)], LongBody),
      WithHeader([autoAiTag |-> PyStr(Yes)], ShortBody),
      WithHeader([autoAiTag |-> PyBool(FALSE), title |-> PyStr(<<"T">>),
                  summary |-> PyStr(<<"o", "l", "d">>), tags |-> PyList(<<TagA, TagB>>)],
                 LongBody),
      WithHeader([title |-> PyStr(<<"T">>), summary |-> PyStr(<<"o", "l", "d">>),
                  tags |-> PyList(<<TagA>>)], ShortBody),
      WithHeader([title |-> PyStr(<<>>), tags |-> PyStr(TagsCommaString)], LongBody),
      WithHeader([tags |-> PyNone], LongBody),
      WithHeader([tags |-> PyInt(7)], LongBody) }

AllFiles ==
    {File(n, c) : n \in AllNames, c \in {Plain(LongBody), Plain(ShortBody)}}
        \cup {File(NamePlain, c) : c \in HeaderContents}

DictReply(parsed) == Reply("ok", TRUE, parsed)

\* the `tags` values a reply can carry
TagReplies ==
    { DictReply([summary |-> PyStr(<<"s">>), tags |-> PyList(<<TagA, TagB, TagC, TagD>>)]),
      DictReply([tags |-> PyList(<< <<" ", "a", " ">>, <<" ">>, <<"x">> >>)]),
      DictReply([tags |-> PyList(<< <<"x">>, <<"x">>, <<"y">> >>)]),
      DictReply([tags |-> PyList(<< <<"x">>, <<"y">>, <<"z">>, TagA >>)]),
      DictReply([tags |-> PyStr(<<"a", ",", " ", "x">>)]),
      DictReply([tags |-> PyStr(<<"[", "x", ",", " ", "y", "]">>)]),
      DictReply([tags |-> PyStr(<<"\\", "u", "2", "0", "1", "1">>)]),
      DictReply([tags |-> PyNone]),
      DictReply([tags |-> PyInt(7)]),
      DictReply([tag |-> PyList(<< <<"x">> >>)]),
      DictReply(EmptyDict) }

\* the `summary` values: None, and one of MaxSummaryWords + 1 words
SummaryReplies ==
    { DictReply([summary |-> PyNone]),
      DictReply([summary |-> PyStr(Text(2 * MaxSummaryWords + 1))]) }

\* "high"
High == <<"h", "i", "g", "h">>

\* the `date` and `date_confidence` values
DateReplies ==
    {DictReply([date |-> dt]) : dt \in {PyNone, PyStr(AiDate)}}
        \cup {DictReply([date |-> dt, date_confidence |-> c]) :
                dt \in {PyNone, PyStr(<<>>), PyStr(AiDate)},
                c \in {PyFloat(0), PyFloat(50), PyFloat(ConfidenceThreshold), PyFloat(95),
                       PyInt(1), PyBool(TRUE), PyStr(High)}}

AllReplies == {ErrorReply, UnparseableReply} \cup TagReplies \cup SummaryReplies \cup DateReplies

(***************************************************************************)
(* Initial state: main has read its configuration and scanned the vault    *)
(* (line 573); llm_semaphore is still the module's None (line 86).         *)
(***************************************************************************)
InitRun(paths, vaults, worker_counts, limits) ==
    /\ md_files = paths
    /\ files \in vaults
    /\ original = files
    /\ tmp_files = [d \in paths |-> Absent]
    /\ char_limit = MaxCharLimit
    /\ force_flag \in BOOLEAN
    /\ write_mode \in BOOLEAN
    /\ workers \in worker_counts
    /\ llm_concurrency_limit \in limits
    /\ llm_semaphore = [created |-> FALSE, value |-> 0]
    /\ main_pc = "init"
    /\ job = [d \in paths |-> FreshJob]
    /\ future = [d \in paths |-> FreshFuture]
    /\ yielded = {}
    /\ results = EmptyBag
    /\ error_log = EmptyBag
    /\ processed_count = 0
    /\ llm_calls = [d \in paths |-> 0]
    /\ acquires = [d \in paths |-> 0]
    /\ releases = [d \in paths |-> 0]

Init ==
    /\ InitRun(1..NumDocs, CoreVaults(1..NumDocs), 1..MaxWorkers, 0..MaxLimit)
    /\ json_call = NoCall

\* one file of any kind, one worker
InitFile ==
    /\ InitRun({1}, [{1} -> AllFiles], {1}, 0..MaxLimit)
    /\ json_call = NoCall

(***************************************************************************)
(* main                                                                    *)
(***************************************************************************)
\* lines 575-584: create the semaphore when the limit is positive, then submit
\* one process_file job per file
InitSemaphore ==
    /\ main_pc = "init"
    /\ llm_semaphore' = IF llm_concurrency_limit > 0
                        THEN [created |-> TRUE, value |-> llm_concurrency_limit]
                        ELSE llm_semaphore
    /\ main_pc' = "as_completed"
    /\ UNCHANGED <<json_call, md_files, files, tmp_files, config, job, future, yielded, results,
                   error_log, processed_count, history>>

\* as_completed hands main a finished future it has not handed out yet
CanConsume(d) ==
    /\ main_pc = "as_completed"
    /\ future[d].state = "finished"
    /\ d \notin yielded

\* Consume without the except clause of lines 592-600: the job's exception
\* leaves the loop and main
ConsumeUncaught(d) ==
    /\ CanConsume(d)
    /\ yielded' = yielded \cup {d}
    /\ IF future[d].exception
       THEN /\ main_pc' = "crashed"
            /\ UNCHANGED <<results, processed_count, error_log>>
       ELSE IF future[d].result.kind # "None"
       THEN /\ results' = results (+) SetToBag({future[d].result})
            /\ processed_count' = processed_count + 1
            /\ UNCHANGED <<error_log, main_pc>>
       ELSE UNCHANGED <<results, processed_count, error_log, main_pc>>
    /\ UNCHANGED <<json_call, md_files, files, tmp_files, config, llm_semaphore, job, future,
                   history>>

\* lines 585-600: one iteration of the as_completed loop
Consume(d) ==
    /\ CanConsume(d)
    /\ yielded' = yielded \cup {d}
    /\ IF future[d].exception
       THEN /\ error_log' = error_log (+) SetToBag({[filepath |-> d,
                                                     error_type |-> "TypeError"]})
            /\ UNCHANGED <<results, processed_count>>
       ELSE IF future[d].result.kind # "None"
       THEN /\ results' = results (+) SetToBag({future[d].result})
            /\ processed_count' = processed_count + 1
            /\ UNCHANGED error_log
       ELSE UNCHANGED <<results, processed_count, error_log>>
    /\ UNCHANGED <<json_call, md_files, files, tmp_files, config, llm_semaphore, main_pc, job,
                   future, history>>

\* as_completed is exhausted: every future was handed out
CanFinish == main_pc = "as_completed" /\ yielded = md_files

\* the loop ends when every future was yielded; the executor shuts down (line 602)
MainFinish ==
    /\ CanFinish
    /\ main_pc' = "done"
    /\ UNCHANGED <<json_call, md_files, files, tmp_files, config, llm_semaphore, job, future,
                   yielded, results, error_log, processed_count, history>>

(***************************************************************************)
(* The thread pool and process_file                                        *)
(***************************************************************************)
\* process_file returns res at the return statement `at` ("ReadFailed" line 386,
\* "Skipped" 393, "Written" 450, "WriteFailed" 453, "DryRun" 456): its locals
\* are gone and the future finishes with that result
Return(d, res, at) ==
    /\ future' = [future EXCEPT ![d] = [state |-> "finished", exception |-> FALSE,
                                        result |-> res]]
    /\ job' = [job EXCEPT ![d] = [FreshJob EXCEPT !.pc = at]]

\* process_file raises: the future finishes with the exception
Raise(d) ==
    /\ future' = [future EXCEPT ![d] = [state |-> "finished", exception |-> TRUE,
                                        result |-> NoneResult]]
    /\ job' = [job EXCEPT ![d] = [FreshJob EXCEPT !.pc = "Raised"]]

\* the job is the oldest submitted one and one of the `workers` threads is free
CanStart(d) ==
    /\ main_pc = "as_completed"
    /\ future[d].state = "pending"
    /\ \A e \in md_files : e < d => future[e].state # "pending"
    /\ Cardinality({e \in md_files : future[e].state = "running"}) < workers

\* a free worker thread takes the oldest submitted job (ThreadPoolExecutor's queue)
StartJob(d) ==
    /\ CanStart(d)
    /\ future' = [future EXCEPT ![d].state = "running"]
    /\ job' = [job EXCEPT ![d].pc = "read"]
    /\ UNCHANGED <<json_call, md_files, files, tmp_files, config, llm_semaphore, main_pc, yielded,
                   results, error_log, processed_count, history>>

\* lines 382-404: read, parse, skip check, title and wordCount
ReadFile(d) ==
    /\ job[d].pc = "read"
    /\ \E ok \in BOOLEAN, parsed \in {parse_frontmatter_and_body(files[d].content)} :
         IF ~ok
         THEN Return(d, NoneResult, "ReadFailed")
         ELSE IF ShouldSkip(parsed.fm, force_flag)
         THEN Return(d, NoneResult, "Skipped")
         ELSE /\ job' = [job EXCEPT
                     ![d].fm = BasicFields(parsed.fm, parsed.body, files[d].name),
                     ![d].body = parsed.body,
                     ![d].pc = IF Len(parsed.body) >= char_limit
                               THEN "acquire" ELSE "resolve"]
              /\ UNCHANGED future
    /\ UNCHANGED <<json_call, md_files, files, tmp_files, config, llm_semaphore, main_pc, yielded,
                   results, error_log, processed_count, history>>

\* the job is at line 186 and, when there is a semaphore, a permit is left
CanAcquire(d) ==
    /\ job[d].pc = "acquire"
    /\ llm_semaphore.created => llm_semaphore.value > 0

\* AcquireSemaphore with acquire(blocking=False): it never waits for a permit
AcquireSemaphoreNoWait(d) ==
    /\ job[d].pc = "acquire"
    /\ IF llm_semaphore.created
       THEN /\ llm_semaphore' = [llm_semaphore EXCEPT !.value = @ - 1]
            /\ acquires' = [acquires EXCEPT ![d] = @ + 1]
       ELSE UNCHANGED <<llm_semaphore, acquires>>
    /\ job' = [job EXCEPT ![d].pc = "request"]
    /\ UNCHANGED <<json_call, md_files, files, tmp_files, config, main_pc, future, yielded, results,
                   error_log, processed_count, original, llm_calls, releases>>

\* lines 186-191: llm_semaphore.acquire() blocks while no permit is left
AcquireSemaphore(d) ==
    /\ CanAcquire(d)
    /\ IF llm_semaphore.created
       THEN /\ llm_semaphore' = [llm_semaphore EXCEPT !.value = @ - 1]
            /\ acquires' = [acquires EXCEPT ![d] = @ + 1]
       ELSE UNCHANGED <<llm_semaphore, acquires>>
    /\ job' = [job EXCEPT ![d].pc = "request"]
    /\ UNCHANGED <<json_call, md_files, files, tmp_files, config, main_pc, future, yielded, results,
                   error_log, processed_count, original, llm_calls, releases>>

\* how the try block is left for a reply: the return of line 270, the return of
\* line 249, or the except clause of lines 272-275
ExitOf(r) ==
    IF r.status = "error" THEN "except"
    ELSE IF r.is_dict THEN "return_parsed" ELSE "return_empty"

\* LLMRequest with one retry of a failed request
LLMRequestRetry(d, replies) ==
    /\ job[d].pc = "request"
    /\ \E r \in replies :
         IF r.status = "error"
         THEN /\ \E r2 \in replies :
                   job' = [job EXCEPT ![d].ai = ModelResult(r2),
                                      ![d].exit = ExitOf(r2),
                                      ![d].pc = "finally"]
              /\ llm_calls' = [llm_calls EXCEPT ![d] = @ + 2]
         ELSE /\ job' = [job EXCEPT ![d].ai = ModelResult(r),
                                    ![d].exit = ExitOf(r),
                                    ![d].pc = "finally"]
              /\ llm_calls' = [llm_calls EXCEPT ![d] = @ + 1]
    /\ UNCHANGED <<json_call, md_files, files, tmp_files, config, llm_semaphore, main_pc, future,
                   yielded, results, error_log, processed_count, original, acquires,
                   releases>>

\* lines 193-275: the request is posted and answered by one of `replies`; every
\* way out of the try block leads to the finally block
LLMRequest(d, replies) ==
    /\ job[d].pc = "request"
    /\ \E r \in replies :
         job' = [job EXCEPT ![d].ai = ModelResult(r),
                            ![d].exit = ExitOf(r),
                            ![d].pc = "finally"]
    /\ llm_calls' = [llm_calls EXCEPT ![d] = @ + 1]
    /\ UNCHANGED <<json_call, md_files, files, tmp_files, config, llm_semaphore, main_pc, future,
                   yielded, results, error_log, processed_count, original, acquires,
                   releases>>

\* ReleaseSemaphore with the release at the end of the try block instead of in
\* a finally block: the except clause returns without it
ReleaseSemaphoreOnReturn(d) ==
    /\ job[d].pc = "finally"
    /\ IF llm_semaphore.created /\ job[d].exit # "except"
       THEN /\ llm_semaphore' = [llm_semaphore EXCEPT !.value = @ + 1]
            /\ releases' = [releases EXCEPT ![d] = @ + 1]
       ELSE UNCHANGED <<llm_semaphore, releases>>
    /\ job' = [job EXCEPT ![d].pc = "resolve"]
    /\ UNCHANGED <<json_call, md_files, files, tmp_files, config, main_pc, future, yielded, results,
                   error_log, processed_count, original, llm_calls, acquires>>

\* ReleaseSemaphore without the release of line 279: the permit is kept
FinallyWithoutRelease(d) ==
    /\ job[d].pc = "finally"
    /\ job' = [job EXCEPT ![d].pc = "resolve"]
    /\ UNCHANGED <<json_call, md_files, files, tmp_files, config, llm_semaphore, main_pc,
                   future, yielded, results, error_log, processed_count, history>>

\* lines 276-281: the finally block releases the permit, and the call returns
ReleaseSemaphore(d) ==
    /\ job[d].pc = "finally"
    /\ IF llm_semaphore.created
       THEN /\ llm_semaphore' = [llm_semaphore EXCEPT !.value = @ + 1]
            /\ releases' = [releases EXCEPT ![d] = @ + 1]
       ELSE UNCHANGED <<llm_semaphore, releases>>
    /\ job' = [job EXCEPT ![d].pc = "resolve"]
    /\ UNCHANGED <<json_call, md_files, files, tmp_files, config, main_pc, future, yielded, results,
                   error_log, processed_count, original, llm_calls, acquires>>

\* Resolve without the test of write_mode at line 444: a dry run rewrites too
ResolveWriteAlways(d) ==
    /\ job[d].pc = "resolve"
    /\ LET long == Len(job[d].body) >= char_limit
           ai_date == IF long THEN job[d].ai.date ELSE PyNone
           ai_confidence == IF long THEN job[d].ai.date_confidence ELSE PyFloat(0)
       IN \E merged \in {IF long THEN MergeAI(job[d].fm, job[d].ai)
                         ELSE [exc |-> FALSE, fm |-> job[d].fm]},
             resolved \in {determine_file_date(ai_date, ai_confidence, files[d].name,
                                               files[d].ctime)} :
            IF merged.exc \/ resolved.exc
            THEN Raise(d)
            ELSE \E fm \in {DictSet(DictSet(merged.fm, "Date", resolved.date),
                                    "autoAiTag", PyBool(TRUE))} :
                   IF TRUE
                   THEN /\ job' = [job EXCEPT
                               ![d].fm = fm,
                               ![d].ai_date = ai_date,
                               ![d].ai_confidence = ai_confidence,
                               ![d].date_source = resolved.source,
                               ![d].new_content = RenderContent(fm, job[d].body),
                               ![d].pc = "open_tmp"]
                        /\ UNCHANGED future
                   ELSE Return(d, DryRunResult(d, fm, resolved.source, ai_date,
                                               ai_confidence), "DryRun")
    /\ UNCHANGED <<json_call, md_files, files, tmp_files, config, llm_semaphore, main_pc, yielded,
                   results, error_log, processed_count, history>>

\* lines 412-462 without the call: merge summary and tags, resolve the date, set
\* Date and autoAiTag; then render the new content (write mode) or return the
\* dry-run dict.  A TypeError of the merge or of the date resolution leaves
\* process_file.
Resolve(d) ==
    /\ job[d].pc = "resolve"
    /\ LET long == Len(job[d].body) >= char_limit
           ai_date == IF long THEN job[d].ai.date ELSE PyNone
           ai_confidence == IF long THEN job[d].ai.date_confidence ELSE PyFloat(0)
       IN \E merged \in {IF long THEN MergeAI(job[d].fm, job[d].ai)
                         ELSE [exc |-> FALSE, fm |-> job[d].fm]},
             resolved \in {determine_file_date(ai_date, ai_confidence, files[d].name,
                                               files[d].ctime)} :
            IF merged.exc \/ resolved.exc
            THEN Raise(d)
            ELSE \E fm \in {DictSet(DictSet(merged.fm, "Date", resolved.date),
                                    "autoAiTag", PyBool(TRUE))} :
                   IF write_mode
                   THEN /\ job' = [job EXCEPT
                               ![d].fm = fm,
                               ![d].ai_date = ai_date,
                               ![d].ai_confidence = ai_confidence,
                               ![d].date_source = resolved.source,
                               ![d].new_content = RenderContent(fm, job[d].body),
                               ![d].pc = "open_tmp"]
                        /\ UNCHANGED future
                   ELSE Return(d, DryRunResult(d, fm, resolved.source, ai_date,
                                               ai_confidence), "DryRun")
    /\ UNCHANGED <<json_call, md_files, files, tmp_files, config, llm_semaphore, main_pc, yielded,
                   results, error_log, processed_count, history>>

\* OpenTmp with open(path, "w"): the document itself is opened for writing
OpenTmpInPlace(d) ==
    /\ job[d].pc = "open_tmp"
    /\ \E ok \in BOOLEAN :
         IF ok
         THEN /\ files' = [files EXCEPT ![d].content = Partial]
              /\ job' = [job EXCEPT ![d].pc = "write_tmp"]
              /\ UNCHANGED future
         ELSE /\ Return(d, WriteFailedResult(d), "WriteFailed")
              /\ UNCHANGED files
    /\ UNCHANGED <<json_call, md_files, tmp_files, config, llm_semaphore, main_pc, yielded, results,
                   error_log, processed_count, history>>

\* lines 350-351: open(path + ".tmp", "w") creates or truncates the temporary file
OpenTmp(d) ==
    /\ job[d].pc = "open_tmp"
    /\ \E ok \in BOOLEAN :
         IF ok
         THEN /\ tmp_files' = [tmp_files EXCEPT ![d] = Partial]
              /\ job' = [job EXCEPT ![d].pc = "write_tmp"]
              /\ UNCHANGED future
         ELSE /\ Return(d, WriteFailedResult(d), "WriteFailed")
              /\ UNCHANGED tmp_files
    /\ UNCHANGED <<json_call, md_files, files, config, llm_semaphore, main_pc, yielded, results,
                   error_log, processed_count, history>>

\* line 352: fh.write(content) and the close of the with block
WriteTmp(d) ==
    /\ job[d].pc = "write_tmp"
    /\ \E ok \in BOOLEAN :
         IF ok
         THEN /\ tmp_files' = [tmp_files EXCEPT ![d] = job[d].new_content]
              /\ job' = [job EXCEPT ![d].pc = "replace"]
              /\ UNCHANGED future
         ELSE /\ Return(d, WriteFailedResult(d), "WriteFailed")
              /\ UNCHANGED tmp_files
    /\ UNCHANGED <<json_call, md_files, files, config, llm_semaphore, main_pc, yielded, results,
                   error_log, processed_count, history>>

\* line 353: os.replace(tmp, path) renames the temporary file over the document
ReplaceFile(d) ==
    /\ job[d].pc = "replace"
    /\ \E ok \in BOOLEAN :
         IF ok
         THEN /\ files' = [files EXCEPT ![d].content = tmp_files[d]]
              /\ tmp_files' = [tmp_files EXCEPT ![d] = Absent]
              /\ Return(d, WrittenResult(d), "Written")
         ELSE /\ Return(d, WriteFailedResult(d), "WriteFailed")
              /\ UNCHANGED <<files, tmp_files>>
    /\ UNCHANGED <<json_call, md_files, config, llm_semaphore, main_pc, yielded, results,
                   error_log, processed_count, history>>

(***************************************************************************)
(* Specifications                                                          *)
(***************************************************************************)
\* the steps of main and of the jobs other than the request
OtherStep ==
    \/ InitSemaphore
    \/ MainFinish
    \/ \E d \in md_files : Consume(d)
    \/ \E d \in md_files : StartJob(d)
    \/ \E d \in md_files : ReadFile(d)
    \/ \E d \in md_files : AcquireSemaphore(d)
    \/ \E d \in md_files : ReleaseSemaphore(d)
    \/ \E d \in md_files : Resolve(d)
    \/ \E d \in md_files : OpenTmp(d)
    \/ \E d \in md_files : WriteTmp(d)
    \/ \E d \in md_files : ReplaceFile(d)

Next ==
    \/ OtherStep
    \/ \E d \in md_files : LLMRequest(d, CoreReplies)

\* concurrent runs over NumDocs files
Spec == Init /\ [][Next]_vars

NextFile ==
    \/ OtherStep
    \/ \E d \in md_files : LLMRequest(d, AllReplies)

\* runs over one file, with every input the code distinguishes
SpecFile == InitFile /\ [][NextFile]_vars

\* the vault of the gated runs: every file is long enough for the request
GateVault(paths) == [d \in paths |-> File(NamePlain, Plain(LongBody))]

\* the request ends with an answer or with an error (at the latest the timeout
\* of requests.post, line 215)
GateReplies == {ErrorReply, GoodReply}

\* a dry run with a semaphore: the limit entered is at least 1, and there may
\* be fewer permits than workers
InitGate ==
    /\ InitRun(1..NumDocs, {GateVault(1..NumDocs)}, 1..MaxWorkers, 1..MaxLimit)
    /\ ~force_flag
    /\ ~write_mode
    /\ json_call = NoCall

\* the steps of a dry run: write_file_atomic is not called
NextGate ==
    \/ InitSemaphore
    \/ MainFinish
    \/ \E d \in md_files : Consume(d)
    \/ \E d \in md_files : StartJob(d)
    \/ \E d \in md_files : ReadFile(d)
    \/ \E d \in md_files : AcquireSemaphore(d)
    \/ \E d \in md_files : LLMRequest(d, GateReplies)
    \/ \E d \in md_files : ReleaseSemaphore(d)
    \/ \E d \in md_files : Resolve(d)

\* the gated runs when some thread runs as long as one can
FairSpec == InitGate /\ [][NextGate]_vars /\ WF_vars(NextGate)

(***************************************************************************)
(* extract_json_object, statement by statement, on every text of up to     *)
(* MaxTextLen characters over braces and one other character               *)
(***************************************************************************)
\* the characters the function tells apart: "{", "}" and any other
TextChars == {"{", "}", "a"}

Texts == UNION {[1..k -> TextChars] : k \in 0..MaxTextLen}

\* s.find("{"): the first position of "{", 0 for -1
FindOpen(s) ==
    IF \E i \in 1..Len(s) : s[i] = "{"
    THEN MinOf({i \in 1..Len(s) : s[i] = "{"})
    ELSE 0

\* the function is called on some text; nothing else runs
InitExtract ==
    /\ InitRun({}, {<<>>}, {1}, {0})
    /\ ~force_flag
    /\ ~write_mode
    /\ \E s \in Texts : json_call = [NoCall EXCEPT !.pc = "called", !.s = s]

\* return v (a substring) or None
ReturnJson(found, v) ==
    json_call' = [json_call EXCEPT !.pc = "returned", !.found = found, !.json_sub = v]

\* lines 107-112: the empty text and the text without "{" give None; else the
\* scan starts at the first "{" with depth 0
FindBrace ==
    /\ json_call.pc = "called"
    /\ IF json_call.s = <<>> \/ FindOpen(json_call.s) = 0
       THEN ReturnJson(FALSE, <<>>)
       ELSE json_call' = [json_call EXCEPT !.pc = "scan",
                                           !.start = FindOpen(json_call.s),
                                           !.i = FindOpen(json_call.s),
                                           !.depth = 0]
    /\ UNCHANGED <<md_files, files, tmp_files, config, llm_semaphore, main_pc, job, future,
                   yielded, results, error_log, processed_count, history>>

\* ScanChar that returns at the first "}" whatever the depth
ScanCharFirstClose ==
    /\ json_call.pc = "scan"
    /\ json_call.i <= Len(json_call.s)
    /\ LET ch == json_call.s[json_call.i]
       IN IF ch = "}"
          THEN ReturnJson(TRUE, SubSeq(json_call.s, json_call.start, json_call.i))
          ELSE json_call' = [json_call EXCEPT !.i = @ + 1]
    /\ UNCHANGED <<md_files, files, tmp_files, config, llm_semaphore, main_pc, job, future,
                   yielded, results, error_log, processed_count, history>>

\* lines 113-120: one iteration of the for loop
ScanChar ==
    /\ json_call.pc = "scan"
    /\ json_call.i <= Len(json_call.s)
    /\ LET ch == json_call.s[json_call.i]
       IN IF ch = "{"
          THEN json_call' = [json_call EXCEPT !.depth = @ + 1, !.i = @ + 1]
          ELSE IF ch = "}"
          THEN IF json_call.depth - 1 = 0
               THEN ReturnJson(TRUE, SubSeq(json_call.s, json_call.start, json_call.i))
               ELSE json_call' = [json_call EXCEPT !.depth = @ - 1, !.i = @ + 1]
          ELSE json_call' = [json_call EXCEPT !.i = @ + 1]
    /\ UNCHANGED <<md_files, files, tmp_files, config, llm_semaphore, main_pc, job, future,
                   yielded, results, error_log, processed_count, history>>

\* line 121: the loop ran off the end of the text
ScanEnd ==
    /\ json_call.pc = "scan"
    /\ json_call.i > Len(json_call.s)
    /\ ReturnJson(FALSE, <<>>)
    /\ UNCHANGED <<md_files, files, tmp_files, config, llm_semaphore, main_pc, job, future,
                   yielded, results, error_log, processed_count, history>>

NextExtract ==
    \/ FindBrace
    \/ ScanChar
    \/ ScanEnd

\* one call of extract_json_object on any text
SpecExtract == InitExtract /\ [][NextExtract]_vars

(***************************************************************************)
(* Properties                                                              *)
(***************************************************************************)
\* the jobs inside the gated section: after acquire, before release
GatedJobs == {d \in md_files : job[d].pc \in {"request", "finally"}}

\* the jobs whose request is in flight
InFlight == {d \in md_files : job[d].pc = "request"}

\* the return statements of process_file, and its leaving by an exception
Terminal == {"ReadFailed", "Skipped", "DryRun", "Written", "WriteFailed", "Raised"}

\* C1: with a gate of llm_concurrency_limit > 0 permits, at most that many jobs
\* are inside the gated section of query_llm_for_summary_and_tags, and so at
\* most that many requests are in flight
GateBound ==
    llm_concurrency_limit > 0 =>
        /\ Cardinality(GatedJobs) <= llm_concurrency_limit
        /\ Cardinality(InFlight) <= llm_concurrency_limit

\* one request is in flight and holds the only permit while another job waits
GateBoundWitness ==
    /\ llm_concurrency_limit = 1
    /\ workers > 1
    /\ llm_semaphore.value = 0
    /\ \E d, e \in md_files : job[d].pc = "request" /\ job[e].pc = "acquire"

\* C2: every permit acquired is released exactly once on every way out of the
\* call; the free permits plus the jobs in the gated section are always the
\* limit, so the free permits never exceed it and equal it when the section is
\* empty
PermitsPaired ==
    /\ \A d \in md_files :
         /\ acquires[d] <= 1
         /\ releases[d] = IF llm_semaphore.created /\ d \in GatedJobs
                          THEN acquires[d] - 1 ELSE acquires[d]
         /\ (/\ llm_semaphore.created
             /\ job[d].pc \in {"resolve", "open_tmp", "write_tmp", "replace"} \cup Terminal
             /\ llm_calls[d] = 1) => releases[d] = 1
    /\ llm_semaphore.created =>
         /\ llm_semaphore.value + Cardinality(GatedJobs) = llm_concurrency_limit
         /\ llm_semaphore.value <= llm_concurrency_limit
         /\ (GatedJobs = {} => llm_semaphore.value = llm_concurrency_limit)

\* a call that ended in the except clause has given its permit back
PermitsPairedWitness ==
    /\ llm_semaphore.created
    /\ llm_semaphore.value = llm_concurrency_limit
    /\ \E d \in md_files :
         /\ job[d].pc = "resolve"
         /\ job[d].exit = "except"
         /\ acquires[d] = 1
         /\ releases[d] = 1

\* the records of the results list for path d
ResultsFor(d) == {r \in BagToSet(results) : r.path = d}

\* the records of the error log for path d
ErrorsFor(d) == {r \in BagToSet(error_log) : r.filepath = d}

\* some thread can take a step: main, a worker that takes a job, or a job that
\* is running and does not wait for a permit
CanStep ==
    \/ main_pc = "init"
    \/ CanFinish
    \/ \E d \in md_files :
         \/ CanConsume(d)
         \/ CanStart(d)
         \/ CanAcquire(d)
         \/ job[d].pc \in {"read", "request", "finally", "resolve", "open_tmp",
                           "write_tmp", "replace"}

\* C3: no failure of a document aborts the run: main is never stuck before the
\* end of its loop, and at the end every file was handled by one job that
\* reached a terminal outcome and whose future the loop consumed once
NoAbort ==
    /\ main_pc \in {"init", "as_completed", "done"}
    /\ main_pc # "done" => CanStep
    /\ main_pc = "done" =>
         /\ \A d \in md_files :
              /\ job[d].pc \in Terminal
              /\ future[d].state = "finished"
              /\ d \in yielded
              /\ \A r \in ResultsFor(d) : CopiesIn(r, results) = 1
              /\ \A r \in ErrorsFor(d) : CopiesIn(r, error_log) = 1
              /\ Cardinality(ResultsFor(d)) + Cardinality(ErrorsFor(d)) =
                    IF job[d].pc \in {"ReadFailed", "Skipped"} THEN 0 ELSE 1
         /\ processed_count = BagCardinality(results)

\* a run that ended although one job raised and another failed to read or write
NoAbortWitness ==
    /\ main_pc = "done"
    /\ \E d, e \in md_files :
         /\ job[d].pc = "Raised"
         /\ job[e].pc \in {"ReadFailed", "WriteFailed"}

\* the header the file at path d had before the run
OriginalHeader(d) == parse_frontmatter_and_body(original[d].content).fm

\* the body the file at path d had before the run
OriginalBody(d) == parse_frontmatter_and_body(original[d].content).body

\* C4 (as the claim states it): at the end of the run the error list holds one
\* record for each document that could not be read, whose rewrite failed or
\* whose job raised an exception
ErrorsPersisted ==
    main_pc = "done" =>
        \A d \in md_files :
            job[d].pc \in {"ReadFailed", "WriteFailed", "Raised"} =>
                Cardinality(ErrorsFor(d)) = 1

\* C5: a document whose header has a truthy autoAiTag, without forceReprocess,
\* is skipped: no request, no permit, no write to the document or to a
\* temporary file, no record in the results, in write mode as in dry-run mode
SkipsTagged ==
    \A d \in md_files :
        (Truthy(DictGet(OriginalHeader(d), "autoAiTag")) /\ ~force_flag) =>
            /\ job[d].pc \in {"pending", "read", "ReadFailed", "Skipped"}
            /\ llm_calls[d] = 0
            /\ acquires[d] = 0
            /\ files[d] = original[d]
            /\ tmp_files[d] = Absent
            /\ future[d].result = NoneResult
            /\ ResultsFor(d) = {}
            /\ (main_pc = "done" => job[d].pc \in {"ReadFailed", "Skipped"})

\* a write-mode run has skipped a document whose autoAiTag is the string "yes"
SkipsTaggedWitness ==
    /\ write_mode /\ ~force_flag /\ main_pc = "done"
    /\ \E d \in md_files :
         /\ DictGet(OriginalHeader(d), "autoAiTag") = PyStr(Yes)
         /\ job[d].pc = "Skipped"

\* the header has title, wordCount, Date and autoAiTag = true
HeaderComplete(fm) ==
    /\ {"title", "wordCount", "Date", "autoAiTag"} \subseteq DOMAIN fm
    /\ fm["autoAiTag"] = PyBool(TRUE)

\* the headers the job of d has rendered for writing, written, or reported in
\* its dry-run record
RenderedHeaders(d) ==
    {c.fm : c \in {c \in {job[d].new_content, tmp_files[d]} : c.kind = "fm"}}
        \cup (IF files[d] # original[d] THEN {files[d].content.fm} ELSE {})
        \cup (IF future[d].result.kind = "DryRun" THEN {future[d].result.metadata} ELSE {})
        \cup {r.metadata : r \in {r \in ResultsFor(d) : r.kind = "DryRun"}}

\* C6: every header that is written or reported for a processed document has
\* title, wordCount, Date and autoAiTag = true; and a processed document's job
\* that ends without raising has written or reported one
HeaderInvariant ==
    \A d \in md_files :
        /\ \A fm \in RenderedHeaders(d) : HeaderComplete(fm)
        /\ job[d].pc \in {"open_tmp", "write_tmp", "replace"} =>
               job[d].new_content.kind = "fm"
        /\ job[d].pc = "Written" => files[d].content.kind = "fm" /\ files[d] # original[d]
        /\ job[d].pc = "DryRun" => future[d].result.kind = "DryRun"

\* a document without a header was rewritten after a request that gave no summary
HeaderInvariantWitness ==
    \E d \in md_files :
        /\ OriginalHeader(d) = EmptyDict
        /\ job[d].pc = "Written"
        /\ llm_calls[d] = 1
        /\ "summary" \notin DOMAIN files[d].content.fm
        /\ HeaderComplete(files[d].content.fm)

\* what determine_file_date was given and what it returned, where a running
\* write-mode job or a dry-run record still shows it
Resolutions(d) ==
    (IF job[d].pc \in {"open_tmp", "write_tmp", "replace"}
     THEN {[ai_date |-> job[d].ai_date, ai_confidence |-> job[d].ai_confidence,
            source |-> job[d].date_source, date |-> DictGet(job[d].fm, "Date")]}
     ELSE {})
    \cup
    (IF future[d].result.kind = "DryRun"
     THEN {[ai_date |-> future[d].result.ai_date,
            ai_confidence |-> future[d].result.ai_confidence,
            source |-> future[d].result.date_source,
            date |-> DictGet(future[d].result.metadata, "Date")]}
     ELSE {})

\* a number above 0.9 (hundredths)
Above90(c) ==
    \/ c.t = "float" /\ c.n > 90
    \/ c.t \in {"int", "bool"} /\ c.n >= 1

\* name[i..k] is "(" YYYY "-" M or MM "-" D or DD ")", the second dash at j
ParenDateAt(name, i, j, k) ==
    /\ j - (i + 6) \in {1, 2}
    /\ k - (j + 1) \in {1, 2}
    /\ k <= Len(name)
    /\ name[i] = "(" /\ name[i + 5] = "-" /\ name[j] = "-" /\ name[k] = ")"
    /\ \A x \in ((i + 1)..(i + 4)) \cup ((i + 6)..(j - 1)) \cup ((j + 1)..(k - 1)) :
           name[x] \in Digit

\* <<i, j, k>> of every such date in the name
ParenDates(name) ==
    {<<t[1], t[1] + 6 + t[2], t[1] + 7 + t[2] + t[3]>> :
        t \in {t \in (1..Len(name)) \X {1, 2} \X {1, 2} :
                  ParenDateAt(name, t[1], t[1] + 6 + t[2], t[1] + 7 + t[2] + t[3])}}

Pad2(s) == IF Len(s) = 1 THEN <<"0">> \o s ELSE s

\* the first parenthesized date of the name, month and day zero-padded
PaddedDate(name) ==
    LET t == CHOOSE t \in ParenDates(name) : \A u \in ParenDates(name) : t[1] <= u[1]
    IN SubSeq(name, t[1] + 1, t[1] + 4) \o <<"-">> \o Pad2(SubSeq(name, t[1] + 6, t[2] - 1))
           \o <<"-">> \o Pad2(SubSeq(name, t[2] + 1, t[3] - 1))

\* the three tiers, given whether the AI tier applies
Precedence(d, r, ai_tier) ==
    IF ai_tier
    THEN r.source = "AI" /\ r.date = r.ai_date
    ELSE IF ParenDates(files[d].name) # {}
    THEN r.source = "Filename" /\ r.date = PyStr(PaddedDate(files[d].name))
    ELSE r.source = "FileSystem" /\ r.date = PyStr(files[d].ctime)

Elems(xs) == {xs[i] : i \in 1..Len(xs)}

\* the header's tags as the list the merge reads: a list as it is, a string
\* split at its commas
ListedTags(fm) ==
    LET got == DictGetDefault(fm, "tags", PyList(<<>>))
    IN IF got.t = "list" THEN got.l
       ELSE IF got.t = "str" THEN parse_tags_field(got)
       ELSE <<>>

\* fm's tags are old's, or old's tags followed by at most 3 tags that are not
\* among them
TagsExtend(old, fm) ==
    \/ /\ ("tags" \in DOMAIN fm) = ("tags" \in DOMAIN old)
       /\ DictGet(fm, "tags") = DictGet(old, "tags")
    \/ /\ "tags" \in DOMAIN fm
       /\ fm["tags"].t = "list"
       /\ LET before == ListedTags(old)
              after == fm["tags"].l
          IN /\ Len(after) > Len(before)
             /\ Len(after) <= Len(before) + 3
             /\ SubSeq(after, 1, Len(before)) = before
             /\ \A i \in (Len(before) + 1)..Len(after) : after[i] \notin Elems(before)

\* C8: in every header that is written or reported, the tags the document had
\* are an unchanged prefix, at most 3 tags follow them, and none of those equals
\* a tag the document had
TagsMerged ==
    \A d \in md_files : \A fm \in RenderedHeaders(d) : TagsExtend(OriginalHeader(d), fm)

\* a document tagged a, b got x, y, z appended from a reply of x, y, z, a
TagsMergedWitness ==
    \E d \in md_files : \E fm \in RenderedHeaders(d) :
        /\ DictGet(OriginalHeader(d), "tags") = PyList(<<TagA, TagB>>)
        /\ DictGet(fm, "tags") = PyList(<<TagA, TagB, <<"x">>, <<"y">>, <<"z">> >>)

\* the job of d is inside write_file_atomic
Rewriting(d) == job[d].pc \in {"open_tmp", "write_tmp", "replace"}

\* at its path the document is complete, and it is the old one unless the job
\* has renamed the temporary file over it; a failed rewrite yields WriteFailed
\* and leaves the old one
OldOrNew(d) ==
    /\ files[d].content.kind \in {"plain", "fm", "badfm"}
    /\ files[d] # original[d] => job[d].pc = "Written"
    /\ job[d].pc = "Written" =>
           /\ future[d].result = WrittenResult(d)
           /\ tmp_files[d] = Absent
    /\ job[d].pc = "WriteFailed" => future[d].result = WriteFailedResult(d)

\* the document changes only by the rename, and then to the complete new
\* content the job rendered; a step of the rewrite that fails yields WriteFailed
RenameOnly(d) ==
    /\ files'[d] # files[d] =>
           /\ job[d].pc = "replace"
           /\ files'[d].content = job[d].new_content
           /\ job'[d].pc = "Written"
    /\ (Rewriting(d) /\ job'[d].pc # job[d].pc) =>
           \/ Rewriting(d)' /\ files'[d] = files[d]
           \/ job'[d].pc = "Written" /\ files'[d] # files[d]
           \/ job'[d].pc = "WriteFailed" /\ files'[d] = original[d]

\* C9: at every point of a rewrite the document at its path is the complete
\* old content or the complete new content; when the write of the temporary
\* file or the rename fails the document keeps its old content and the job
\* yields WriteFailed
AtomicRewrite ==
    /\ [](\A d \in md_files : OldOrNew(d))
    /\ [][\A d \in md_files : RenameOnly(d)]_vars

\* a rewrite failed while its temporary file was half written: the document is
\* the old one; and another document was replaced by its new content
AtomicRewriteWitness ==
    \E d, e \in md_files :
        /\ job[d].pc = "WriteFailed" /\ tmp_files[d] = Partial /\ files[d] = original[d]
        /\ job[e].pc = "Written" /\ files[e] # original[e]

\* the document is read, is not skipped and its body has charLimit characters
NeedsCall(d) ==
    /\ job[d].pc \notin {"pending", "read", "ReadFailed", "Skipped"}
    /\ Len(OriginalBody(d)) >= char_limit

\* at most one request per document, and exactly one once a document that
\* needs it is past the request; a failed request leaves the empty result
OneCall(d) ==
    /\ llm_calls[d] <= 1
    /\ job[d].pc \notin {"pending", "read", "acquire", "request"} =>
           llm_calls[d] = IF NeedsCall(d) THEN 1 ELSE 0
    /\ job[d].pc \in {"pending", "read", "acquire", "request"} => llm_calls[d] = 0
    /\ job[d].exit = "except" => job[d].ai = EmptyResult /\ llm_calls[d] = 1
    /\ (Rewriting(d) /\ job[d].exit = "except") => job[d].date_source # "AI"

\* the job that resolves the date after a failed request does not take the AI
\* tier, in the dry-run record as in the header it renders
FailedCallNotAI(d) ==
    (job[d].pc = "resolve" /\ job[d].exit = "except") =>
        /\ future'[d].result.date_source # "AI"
        /\ job'[d].date_source # "AI"
        /\ llm_calls'[d] = 1
        /\ \A c \in {job'[d].new_content} : c.kind = "fm" => c.fm["Date"] # PyStr(AiDate)

\* C10: each document causes at most one request, exactly one when it is
\* readable, not skipped and its body has at least charLimit characters; a
\* failed request is not repeated, yields the empty result, and the date source
\* of its document is not AI
AtMostOneCall ==
    /\ [](\A d \in md_files : OneCall(d))
    /\ [][\A d \in md_files : FailedCallNotAI(d)]_vars

\* a dry run reports a document whose only request failed: its date is the one
\* of its name
AtMostOneCallWitness ==
    \E d \in md_files :
        /\ job[d].pc = "DryRun"
        /\ llm_calls[d] = 1
        /\ future[d].result.ai_date = PyNone
        /\ future[d].result.date_source = "Filename"

\* how many of s[a..b] are the character ch
CountOf(s, a, b, ch) == Cardinality({x \in a..b : s[x] = ch})

\* s[a..b] is one {...} object: it opens at a, closes at b and nowhere before
WellFormedSpan(s, a, b) ==
    /\ a < b
    /\ s[a] = "{"
    /\ s[b] = "}"
    /\ CountOf(s, a, b, "{") = CountOf(s, a, b, "}")
    /\ \A e \in a..(b - 1) : CountOf(s, a, e, "{") > CountOf(s, a, e, "}")

\* s is non-brace text, the object s[a..b], non-brace text
Embedded(s, a, b) ==
    /\ WellFormedSpan(s, a, b)
    /\ \A x \in (1..Len(s)) \ (a..b) : s[x] \notin {"{", "}"}

\* every "}" of s closes an earlier "{" and every "{" is closed
Balanced(s) ==
    /\ CountOf(s, 1, Len(s), "{") = CountOf(s, 1, Len(s), "}")
    /\ \A e \in 1..Len(s) : CountOf(s, 1, e, "{") >= CountOf(s, 1, e, "}")

\* the call returned the object embedded in a text that has one
ReturnsEmbedded ==
    \A a, b \in 1..Len(json_call.s) :
        Embedded(json_call.s, a, b) =>
            json_call.found /\ json_call.json_sub = SubSeq(json_call.s, a, b)

\* the ends of the spans from the first "{" of s in which the braces balance
BalancedEnds(s) ==
    {e \in 1..Len(s) :
        /\ \E x \in 1..e : s[x] = "{"
        /\ LET a == CHOOSE x \in 1..e : s[x] = "{" /\ \A y \in 1..(x - 1) : s[y] # "{"
           IN CountOf(s, a, e, "{") = CountOf(s, a, e, "}")}

\* C11 (as the claim states it): a text with an embedded object gives that
\* object, and a text whose braces are unbalanced gives None
ExtractsOrRejects ==
    json_call.pc = "returned" =>
        /\ ReturnsEmbedded
        /\ ~Balanced(json_call.s) => ~json_call.found

\* C11 (amended): extract_json_object returns the shortest span from the first
\* "{" of the text in which the braces balance, and None exactly when there is
\* no such span; so a text with an embedded object gives that object
ExtractsFirstBalanced ==
    json_call.pc = "returned" =>
        /\ ReturnsEmbedded
        /\ LET s == json_call.s
               ends == BalancedEnds(s)
           IN IF ends = {}
              THEN ~json_call.found
              ELSE LET e == CHOOSE e \in ends : \A f \in ends : e <= f
                       a == CHOOSE x \in 1..e : s[x] = "{" /\ \A y \in 1..(x - 1) : s[y] # "{"
                   IN json_call.found /\ json_call.json_sub = SubSeq(s, a, e)

\* the call on "a{{}}a" returned "{{}}"
ExtractsFirstBalancedWitness ==
    /\ json_call.pc = "returned"
    /\ json_call.s = <<"a", "{", "{", "}", "}", "a">>
    /\ json_call.found
    /\ json_call.json_sub = <<"{", "{", "}", "}">>

\* the job of d has not written: the document is as before the run, there is
\* no temporary file, and the job is not in write_file_atomic nor past it
Untouched(d) ==
    /\ files[d] = original[d]
    /\ tmp_files[d] = Absent
    /\ job[d].new_content = Absent
    /\ job[d].pc \notin {"open_tmp", "write_tmp", "replace", "Written", "WriteFailed"}

\* the job of d returned the dry-run record: path, computed header, date
\* source, AI date and AI confidence
ReportsDryRun(d) ==
    LET r == future[d].result
    IN /\ r.kind = "DryRun"
       /\ r.path = d
       /\ HeaderComplete(r.metadata)
       /\ r.date_source \in {"AI", "Filename", "FileSystem"}
       /\ r.date_source = "AI" => r.metadata["Date"] = r.ai_date /\ Above90(r.ai_confidence)
       /\ llm_calls[d] = 0 => r.ai_date = PyNone /\ r.ai_confidence = PyFloat(0)
       /\ main_pc = "done" => CopiesIn(r, results) = 1

\* C12: in a dry run no job writes, renames or creates a file, every document
\* stays as it was before the run, and every job that gets through its
\* document returns the DryRun record, which main collects
DryRunFrame ==
    ~write_mode =>
        \A d \in md_files :
            /\ Untouched(d)
            /\ job[d].pc = "DryRun" => ReportsDryRun(d)
            /\ (future[d].state = "finished" /\ ~future[d].exception
                   /\ job[d].pc \notin {"ReadFailed", "Skipped"}) => job[d].pc = "DryRun"
            /\ future[d].result.kind \in {"None", "DryRun"}

\* a finished dry run in which one document was reported with an AI date and
\* another with the date of the file system
DryRunFrameWitness ==
    /\ ~write_mode
    /\ main_pc = "done"
    /\ \E d, e \in md_files :
         /\ job[d].pc = "DryRun" /\ future[d].result.date_source = "AI"
         /\ job[e].pc = "DryRun" /\ future[e].result.date_source = "FileSystem"
         /\ files = original

\* the job of d waits for a permit / has got past acquire
Waiting(d) == d \in md_files /\ job[d].pc = "acquire"

Admitted(d) == d \in md_files /\ job[d].pc = "request"

\* the run is complete: main has left its loop and every job has ended
RunComplete == main_pc = "done" /\ \A d \in md_files : job[d].pc \in Terminal

\* C13: every job that waits at acquire gets a permit, also with fewer permits
\* than workers, and the run completes with every job ended
GateLive ==
    /\ \A d \in 1..NumDocs : Waiting(d) ~> Admitted(d)
    /\ <>[]RunComplete

\* with fewer permits than workers, a job waits at acquire while the only
\* permit is held by a job in its finally block
GateLiveWitness ==
    /\ llm_semaphore.created
    /\ llm_concurrency_limit < workers
    /\ llm_semaphore.value = 0
    /\ \E d, e \in md_files : job[d].pc = "acquire" /\ job[e].pc = "finally"

\* the keys process_file sets whatever the model returned
SetKeys == {"title", "wordCount", "Date", "autoAiTag"}

\* new is old with the set keys added or assigned and nothing else changed: an
\* entry old has, summary and tags among them, is the same in new, and so is a
\* title old has
OnlySetKeys(old, new) ==
    /\ DOMAIN new = DOMAIN old \cup SetKeys
    /\ \A k \in DOMAIN old \ {"wordCount", "Date", "autoAiTag"} : new[k] = old[k]
    /\ ("summary" \in DOMAIN new) = ("summary" \in DOMAIN old)
    /\ ("tags" \in DOMAIN new) = ("tags" \in DOMAIN old)

\* the request of d was made and gave the empty result
GotEmpty(d) == llm_calls[d] = 1 /\ job[d].ai = EmptyResult /\ job[d].exit # "none"

\* while the job rewrites after an empty result, the header it rendered and the
\* temporary file it completed have only the set keys changed
EmptyKeepsRendered(d) ==
    (Rewriting(d) /\ GotEmpty(d)) =>
        /\ job[d].new_content.kind = "fm"
        /\ OnlySetKeys(OriginalHeader(d), job[d].new_content.fm)
        /\ tmp_files[d].kind = "fm" => OnlySetKeys(OriginalHeader(d), tmp_files[d].fm)

\* the step after an empty result reports, or renders, a header with only
\* the set keys changed, and the rename installs such a header
EmptyKeepsStep(d) ==
    /\ (job[d].pc = "resolve" /\ GotEmpty(d)) =>
           /\ future'[d].result.kind = "DryRun" =>
                  OnlySetKeys(OriginalHeader(d), future'[d].result.metadata)
           /\ job'[d].pc = "open_tmp" =>
                  OnlySetKeys(OriginalHeader(d), job'[d].new_content.fm)
           /\ job'[d].pc \in {"DryRun", "open_tmp", "Raised"}
    /\ (job[d].pc = "replace" /\ GotEmpty(d) /\ files'[d] # files[d]) =>
           OnlySetKeys(OriginalHeader(d), files'[d].content.fm)

\* C14: when the request fails or its output cannot be parsed, the header that
\* is reported or written has the file's summary and tags entries exactly as
\* they were parsed; only title (if absent), wordCount, Date and autoAiTag are set
EmptyKeeps ==
    /\ [](\A d \in md_files : EmptyKeepsRendered(d))
    /\ [][\A d \in md_files : EmptyKeepsStep(d)]_vars

\* a file with a summary and two tags is being rewritten after a failed
\* request, with the summary and the tags it had
EmptyKeepsWitness ==
    \E d \in md_files :
        /\ job[d].pc = "replace"
        /\ job[d].exit = "except"
        /\ GotEmpty(d)
        /\ DictGet(OriginalHeader(d), "summary") = PyStr(<<"o", "l", "d">>)
        /\ DictGet(tmp_files[d].fm, "summary") = PyStr(<<"o", "l", "d">>)
        /\ DictGet(tmp_files[d].fm, "tags") = PyList(<<TagA, TagB>>)

====
